---- MODULE Spec2Model ----
(***************************************************************************)
(* Order API service (lucamemma/mytest, app/main.go): the order-creation   *)
(* and order-retrieval handlers driving a DBExecutor, realised either by    *)
(* the stateful in-memory store (DB_HOST=mock) or by the database/sql       *)
(* adapter.                                                                 *)
(*                                                                          *)
(* Numbers.  A float64 currency value is represented exactly, as an integer *)
(* number of ten-thousandths (1200.00 is 12000000); a VAT rate is an        *)
(* integer number of hundredths (0.22 is 22).  Binary rounding error of     *)
(* float64 is not represented.                                              *)
(*                                                                          *)
(* Identifiers.  uuid.New() yields a fresh id per request: the order id of  *)
(* the request handled by creator c is c.  time.Now() is the logical clock. *)
(***************************************************************************)
EXTENDS Integers, Sequences, FiniteSets, TLC

\* ---------------------------------------------------------------- bounds

\* Concurrent POST /order requests.
NumCreators == 2
\* Concurrent GET /orders/{id} requests.
NumReaders == 1
\* Line items over all the requests of one run.
MaxTotalItems == 3
\* Transaction calls over one run of the store driven through its executor.
MaxStoreCalls == 4
\* Columns of a scanned row and destinations of a Scan.
MaxColumns == 2
\* Rows of a scanned row set.
MaxRows == 2

Creators == 1..NumCreators
Readers == (NumCreators + 1)..(NumCreators + NumReaders)

\* The items a request may carry: the two items of the success test, the
\* unknown product of the not-found test, a zero and a negative quantity, and
\* an unknown product with a zero quantity.
UnknownProduct == 999
Item(productID, quantity) == [ProductID |-> productID, Quantity |-> quantity]
IncomingOrderItem ==
    {Item(1, 1), Item(2, 2), Item(UnknownProduct, 1), Item(1, 0), Item(2, -1),
     Item(UnknownProduct, 0)}

\* The order id of GET /orders/nonexistent-order.
NonexistentOrder == 0
OrderIDs == Creators \cup {NonexistentOrder}

\* ------------------------------------------------------------- constants

StatusOK == 200
StatusCreated == 201
StatusBadRequest == 400
StatusNotFound == 404
StatusInternalServerError == 500

\* One hundredth of a currency unit, in ten-thousandths.
Cent == 100

\* The totals of the success test's UPDATE, 1500.00 and 330.00.
TestTotalPrice == 15000000
TestVATAmount == 3300000

\* ------------------------------------------------------------- catalogs

DBProduct(id, price, rate) == [ID |-> id, Price |-> price, VATRate |-> rate]

\* The nil *DBProduct that GetProductByID returns with an error.
NoProduct == DBProduct(0, 0, 0)

\* InMemoryStore.Populate: the catalog of the in-memory backend.
Populate ==
    (1 :> DBProduct(1, 14999900, 22)) @@ (2 :> DBProduct(2, 799900, 22)) @@
    (3 :> DBProduct(3, 1299900, 22)) @@ (4 :> DBProduct(4, 6495000, 22)) @@
    (5 :> DBProduct(5, 1505000, 15))

\* The products table the handler tests put behind the executor.
TestCatalog ==
    (1 :> DBProduct(1, 12000000, 22)) @@ (2 :> DBProduct(2, 1500000, 22))

\* ------------------------------------------------------------ arithmetic

\* round: int(num + math.Copysign(0.5, num)), the conversion truncating
\* toward zero.  num is in hundredths of the unit being rounded to.
round(num) ==
    IF num >= 0 THEN (num + 50) \div 100 ELSE -((-num + 50) \div 100)

\* toFixed(num, 2): float64(round(num * 100)) / 100.
toFixed(num) == round(num) * Cent

\* float64 product of a price and a VAT rate.
MulRate(price, rate) == (price * rate) \div 100

\* ----------------------------------------------------------------- state

VARIABLES
    backend,          \* "mock": InMemoryDB; "live": sqlDBAdapter
    products,         \* store.products / table products
    orders,           \* store.orders / committed rows of table orders
    orderItems,       \* store.orderItems / committed rows of order_items
    nextItemID,       \* store.nextItemID / the item_id sequence
    clock,            \* time.Now()
    txOrder,          \* live: the uncommitted header row of each transaction
    txItems,          \* live: the uncommitted item rows of each transaction
    pc,               \* position of each request handler
    items,            \* incomingOrder.Items of each creation request
    totalOrderPrice,  \* createOrderHandler locals
    vatAmount,
    outgoingItems,
    calls,            \* the executor calls each handler has made, in order
    lastErr,          \* the error returned by the handler's last executor call
    response,         \* status and body written by each handler
    readID,           \* mux.Vars(r)["id"] of each retrieval request
    orderRecord,      \* GetOrderByID's scanned header
    orderItemRecord,  \* the row createOrderHandler is about to insert
    product,          \* the product GetProductByID returned to each handler
    doneAtStart,      \* creations already answered when a retrieval began
    earlier,          \* the client's previous retrieval: its id and response
    dirty,            \* a write took effect since the client's first retrieval began
    mu,               \* store.mu: what each request holds or waits for
    inMemoryRow,      \* an InMemoryRow: its data and its error
    inMemoryRows,     \* an InMemoryRows: its data and its currentIndex
    dest,             \* the destinations handed to Scan
    returned          \* what the last call on the row or the row set returned

storeVars == <<products, orders, orderItems, nextItemID, clock>>
txVars == <<txOrder, txItems>>
createVars == <<items, totalOrderPrice, vatAmount, outgoingItems, orderItemRecord,
                product>>
readVars == <<readID, orderRecord, doneAtStart, earlier, dirty>>
scanVars == <<inMemoryRow, inMemoryRows, dest, returned>>
handlerVars == <<backend, storeVars, txVars, pc, createVars, calls, lastErr,
                 response, readVars, mu>>
vars == <<handlerVars, scanVars>>

\* ------------------------------------------------------------ structures

NoOrder == [OrderID |-> -1, TotalPrice |-> 0, VATAmount |-> 0, CreatedAt |-> 0]

OrderRecord(id, total, vat, at) ==
    [OrderID |-> id, TotalPrice |-> total, VATAmount |-> vat, CreatedAt |-> at]

\* Mutant: the row carries the VAT of the whole line.
OrderItemRecordLineVAT(itemID, orderID, productID, quantity, unitPrice, itemVAT) ==
    [ItemID |-> itemID, OrderID |-> orderID, ProductID |-> productID,
     Quantity |-> quantity, UnitPrice |-> unitPrice,
     ItemVAT |-> itemVAT * quantity]

\* Mutant: the row carries the price of the whole line as its unit price.
OrderItemRecordLinePrice(itemID, orderID, productID, quantity, unitPrice, itemVAT) ==
    [ItemID |-> itemID, OrderID |-> orderID, ProductID |-> productID,
     Quantity |-> quantity, UnitPrice |-> unitPrice * quantity,
     ItemVAT |-> itemVAT]

OrderItemRecord(itemID, orderID, productID, quantity, unitPrice, itemVAT) ==
    [ItemID |-> itemID, OrderID |-> orderID, ProductID |-> productID,
     Quantity |-> quantity, UnitPrice |-> unitPrice, ItemVAT |-> itemVAT]

NoItem == OrderItemRecord(0, -1, 0, 0, 0, 0)

OutgoingOrderItem(productID, quantity, price, itemVAT) ==
    [ProductID |-> productID, Quantity |-> quantity, Price |-> price,
     ItemVAT |-> itemVAT]

\* A response: the status, the message of http.Error with the id it names,
\* and the OutgoingOrder of a 200 or 201.
NoResponse ==
    [status |-> 0, message |-> "", id |-> 0, OrderID |-> -1,
     TotalOrderPrice |-> 0, VATAmount |-> 0, Items |-> <<>>]

\* No previous retrieval.
NoEarlier == [id |-> -1, response |-> NoResponse]

ErrorResponse(status, message, id) ==
    [NoResponse EXCEPT !.status = status, !.message = message, !.id = id]

OrderResponse(status, orderID, total, vat, its) ==
    [NoResponse EXCEPT !.status = status, !.OrderID = orderID,
                       !.TotalOrderPrice = total, !.VATAmount = vat,
                       !.Items = its]

\* Errors an executor call returns.
ErrNil == "nil"
ErrNoRows == "sql: no rows in result set"
ErrStore == "store error"

\* fmt.Errorf("order not found for update: %s", orderID)
ErrOrderNotFound(orderID) == "order not found for update: " \o ToString(orderID)

\* Executor calls.
CallBegin == "Begin"
CallInsertOrder == "InsertOrder"
CallGetProduct == "GetProductByID"
CallInsertItem == "InsertOrderItem"
CallUpdateTotals == "UpdateOrderTotals"
CallCommit == "Commit"
CallRollback == "Rollback"
CallQueryOrder == "QueryRow orders"
CallQueryItems == "Query order_items"
CallQueryProducts == "Query products"

\* ------------------------------------------------------------------ maps

EmptyMap == [k \in {} |-> 0]

\* m[k] = v of a Go map.
Put(m, k, v) == [x \in DOMAIN m \cup {k} |-> IF x = k THEN v ELSE m[x]]

\* store.orderItems[orderID]: nil when the key is absent.
ItemsOf(m, k) == IF k \in DOMAIN m THEN m[k] ELSE <<>>

\* Mutant: every request takes the same order id.
OrderIDShared(c) == 1

\* uuid.New().String() of the request handled by creator c.
OrderID(c) == c

ItemsHeld == LET RECURSIVE Sum(_)
                 Sum(S) == IF S = {} THEN 0
                           ELSE LET c == CHOOSE x \in S : TRUE
                                IN Len(items[c]) + Sum(S \ {c})
             IN Sum(Creators)

\* The errors a call can return besides its own outcome: the in-memory
\* backend has none; a database connection can fail at any call.
Faults == IF backend = "live" THEN {ErrNil, ErrStore} ELSE {ErrNil}

\* ---------------------------------------------------------------- store.mu

\* What a request has of the sync.RWMutex of the in-memory store: nothing,
\* the shared lock, the exclusive lock, or a Lock() call that is blocked.
Unlocked == "unlocked"
RLocked == "RLock"
Locked == "Lock"
LockPending == "Lock pending"

\* Mutant: the operation returns without releasing the lock.
UnlockForgotten(w) == UNCHANGED mu

\* defer store.mu.Unlock() / defer store.mu.RUnlock(): the lock the request
\* holds is released when the operation returns.
Unlock(w) == mu' = [mu EXCEPT ![w] = Unlocked]

\* ------------------------------------------- InMemoryRow and InMemoryRows

\* The types InMemoryRow.Scan has a case for, and a destination type it has
\* none for.
ScanTypes == {"string", "float64", "int", "time.Time"}
DestTypes == ScanTypes \cup {"bool"}

\* An interface{} value: its dynamic type and the value.
Value(type, v) == [type |-> type, v |-> v]

\* A destination: a pointer to a variable of a type, which holds its zero
\* value before the scan.
Pointer(type) == [type |-> type, val |-> Value(type, 0)]

InMemoryRow(data, err) == [data |-> data, err |-> err]
InMemoryRows(data, currentIndex) == [data |-> data, currentIndex |-> currentIndex]

\* No row and no row set at hand.
NoRow == InMemoryRow(<<>>, "no row")
NoRows == InMemoryRows(<<>>, -1)

\* What a call returned: nothing yet, the bool of Next, the error of Scan,
\* or no return at all, the goroutine panicking.
NotCalled == "not called"
ErrScanArity == "scan error: expected %d dest values, got %d"
ErrUnsupported == "unsupported type for scan: %T"
ErrOutOfBounds == "scan called out of bounds or before Next"
ErrNotImplemented == "in-memory mock for Tx.QueryRow not implemented: %s"
Panic == "panic: interface conversion"

\* The loop of InMemoryRow.Scan from column i on: a destination of a type
\* without a case ends the scan with an error; the type assertion
\* val.(T) of a case panics when the value is not a T; otherwise the value
\* is stored and the loop goes on.
RECURSIVE ScanFrom(_, _, _)
ScanFrom(data, d, i) ==
    IF i > Len(data) THEN [err |-> "nil", dest |-> d]
    ELSE IF d[i].type \notin ScanTypes THEN [err |-> ErrUnsupported, dest |-> d]
    ELSE IF data[i].type # d[i].type THEN [err |-> Panic, dest |-> d]
    ELSE ScanFrom(data, [d EXCEPT ![i].val = data[i]], i + 1)

\* InMemoryRow.Scan: the error returned and the destinations after it.
InMemoryRowScan(r, d) ==
    IF r.err # "nil" THEN [err |-> r.err, dest |-> d]
    ELSE IF Len(d) # Len(r.data) THEN [err |-> ErrScanArity, dest |-> d]
    ELSE ScanFrom(r.data, d, 1)

\* InMemoryRows.Scan
InMemoryRowsScan(rs, d) ==
    IF rs.currentIndex > Len(rs.data) \/ rs.currentIndex = 0
    THEN [err |-> ErrOutOfBounds, dest |-> d]
    ELSE InMemoryRowScan(InMemoryRow(rs.data[rs.currentIndex], "nil"), d)

\* No Scan is under way.
NoScan ==
    /\ inMemoryRow = NoRow
    /\ inMemoryRows = NoRows
    /\ dest = <<>>
    /\ returned = NotCalled

\* ------------------------------------------------------------------ start

\* No order stored, no request received.
NoRequests ==
    /\ orders = EmptyMap
    /\ orderItems = EmptyMap
    /\ nextItemID = 1
    /\ clock = 0
    /\ txOrder = [c \in Creators |-> NoOrder]
    /\ txItems = [c \in Creators |-> <<>>]
    /\ pc = [w \in Creators \cup Readers |-> "idle"]
    /\ items = [c \in Creators |-> <<>>]
    /\ totalOrderPrice = [c \in Creators |-> 0]
    /\ vatAmount = [c \in Creators |-> 0]
    /\ outgoingItems = [c \in Creators |-> <<>>]
    /\ orderItemRecord = [c \in Creators |-> NoItem]
    /\ product = [c \in Creators |-> NoProduct]
    /\ calls = [w \in Creators \cup Readers |-> <<>>]
    /\ lastErr = [w \in Creators \cup Readers |-> ErrNil]
    /\ response = [w \in Creators \cup Readers |-> NoResponse]
    /\ readID = [r \in Readers |-> NonexistentOrder]
    /\ orderRecord = [r \in Readers |-> NoOrder]
    /\ doneAtStart = [r \in Readers |-> {}]
    /\ earlier = [r \in Readers |-> NoEarlier]
    /\ dirty = [r \in Readers |-> FALSE]
    /\ mu = [w \in Creators \cup Readers |-> Unlocked]

Init ==
    /\ backend \in {"mock", "live"}
    /\ products = IF backend = "mock" THEN Populate ELSE TestCatalog
    /\ NoRequests
    /\ NoScan

\* ------------------------------------------------- transaction executors

\* Mutant: the header insert stores nothing.
TxInsertOrderNowhere(c, order) ==
    UNCHANGED <<orders, orderItems, nextItemID, txVars>>

\* InMemoryTx.Exec, "INSERT INTO orders": the row goes straight into the
\* shared map.  sql.Tx.Exec: the row is pending until Commit.
TxInsertOrder(c, order) ==
    IF backend = "mock"
    THEN /\ orders' = Put(orders, order.OrderID, order)
         /\ UNCHANGED <<orderItems, nextItemID, txVars>>
    ELSE /\ txOrder' = [txOrder EXCEPT ![c] = order]
         /\ UNCHANGED <<orders, orderItems, nextItemID, txItems>>

\* Mutant: the item id is not advanced after an insert.
TxInsertOrderItemSameID(c, item) ==
    LET row == [item EXCEPT !.ItemID = nextItemID]
    IN /\ nextItemID' = nextItemID
       /\ IF backend = "mock"
          THEN /\ orderItems' = Put(orderItems, item.OrderID,
                                    Append(ItemsOf(orderItems, item.OrderID), row))
               /\ UNCHANGED <<orders, txVars>>
          ELSE /\ txItems' = [txItems EXCEPT ![c] = Append(@, row)]
               /\ UNCHANGED <<orders, orderItems, txOrder>>

\* InMemoryTx.QueryRow, "INSERT INTO order_items ... RETURNING item_id": the
\* row takes store.nextItemID and is appended to the shared slice.
\* sql.Tx.QueryRow: the row takes the next value of the item_id sequence and
\* is pending until Commit.
TxInsertOrderItem(c, item) ==
    LET row == [item EXCEPT !.ItemID = nextItemID]
    IN /\ nextItemID' = nextItemID + 1
       /\ IF backend = "mock"
          THEN /\ orderItems' = Put(orderItems, item.OrderID,
                                    Append(ItemsOf(orderItems, item.OrderID), row))
               /\ UNCHANGED <<orders, txVars>>
          ELSE /\ txItems' = [txItems EXCEPT ![c] = Append(@, row)]
               /\ UNCHANGED <<orders, orderItems, txOrder>>

\* Mutant: the update of an order that is not there reports no error.
UpdateNeverFails(orderID) == FALSE

\* Whether "UPDATE orders SET ..." returns an error: InMemoryTx.Exec does when
\* the map has no such order; the SQL statement updates zero rows silently.
UpdateFails(orderID) == backend = "mock" /\ orderID \notin DOMAIN orders

\* Mutant: the in-memory update rewrites the totals of every header.
TxUpdateOrderTotalsEverywhere(c, orderID, total, vat) ==
    /\ orders' = [o \in DOMAIN orders |->
                     [orders[o] EXCEPT !.TotalPrice = total, !.VATAmount = vat]]
    /\ UNCHANGED <<orderItems, nextItemID, txVars>>

\* InMemoryTx.Exec, "UPDATE orders SET total_price, vat_amount": the shared
\* row is rewritten.  sql.Tx.Exec: the transaction's own pending row is.
TxUpdateOrderTotals(c, orderID, total, vat) ==
    IF backend = "mock"
    THEN /\ orders' = [orders EXCEPT ![orderID].TotalPrice = total,
                                     ![orderID].VATAmount = vat]
         /\ UNCHANGED <<orderItems, nextItemID, txVars>>
    ELSE /\ txOrder' = [txOrder EXCEPT
                          ![c] = IF @.OrderID = orderID
                                 THEN [@ EXCEPT !.TotalPrice = total,
                                                !.VATAmount = vat]
                                 ELSE @]
         /\ UNCHANGED <<orders, orderItems, nextItemID, txItems>>

\* InMemoryTx.Commit: a no-op.  sql.Tx.Commit: the pending rows become
\* visible at once.
TxCommit(c) ==
    IF backend = "mock"
    THEN UNCHANGED <<orders, orderItems, nextItemID, txVars>>
    ELSE /\ orders' = IF txOrder[c] = NoOrder THEN orders
                      ELSE Put(orders, txOrder[c].OrderID, txOrder[c])
         /\ orderItems' = IF txItems[c] = <<>> THEN orderItems
                          ELSE Put(orderItems, txItems[c][1].OrderID,
                                   ItemsOf(orderItems, txItems[c][1].OrderID)
                                       \o txItems[c])
         /\ txOrder' = [txOrder EXCEPT ![c] = NoOrder]
         /\ txItems' = [txItems EXCEPT ![c] = <<>>]
         /\ UNCHANGED nextItemID

\* Mutant: Rollback removes the orders and the items of the store.
TxRollbackErasing(c) ==
    /\ orders' = EmptyMap
    /\ orderItems' = EmptyMap
    /\ UNCHANGED <<nextItemID, txVars>>

\* InMemoryTx.Rollback: a no-op.  sql.Tx.Rollback: the pending rows are
\* dropped; after Commit there are none and the call changes nothing.
TxRollback(c) ==
    IF backend = "mock"
    THEN UNCHANGED <<orders, orderItems, nextItemID, txVars>>
    ELSE /\ txOrder' = [txOrder EXCEPT ![c] = NoOrder]
         /\ txItems' = [txItems EXCEPT ![c] = <<>>]
         /\ UNCHANGED <<orders, orderItems, nextItemID>>

\* TxExecutor.QueryRow, "SELECT ... FROM products WHERE id = $1", scanned.
LookupErr(productID) ==
    IF productID \in DOMAIN products THEN ErrNil ELSE ErrNoRows

\* ---------------------------------------------------- createOrderHandler

\* Mutant: the handler commits what it wrote before the failure.
AbortCommitting(c, call, err, resp) ==
    /\ pc' = [pc EXCEPT ![c] = "done"]
    /\ calls' = [calls EXCEPT ![c] = @ \o <<call, CallCommit, CallRollback>>]
    /\ lastErr' = [lastErr EXCEPT ![c] = err]
    /\ response' = [response EXCEPT ![c] = resp]
    /\ TxCommit(c)

\* Mutant: no Rollback is deferred.
AbortWithoutRollback(c, call, err, resp) ==
    /\ pc' = [pc EXCEPT ![c] = "done"]
    /\ calls' = [calls EXCEPT ![c] = Append(@, call)]
    /\ lastErr' = [lastErr EXCEPT ![c] = err]
    /\ response' = [response EXCEPT ![c] = resp]
    /\ UNCHANGED <<orders, orderItems, nextItemID, txVars>>

\* A handler returns after an error: the response is written, the deferred
\* tx.Rollback() runs, nothing else is called.
Abort(c, call, err, resp) ==
    /\ pc' = [pc EXCEPT ![c] = "done"]
    /\ calls' = [calls EXCEPT ![c] = @ \o <<call, CallRollback>>]
    /\ lastErr' = [lastErr EXCEPT ![c] = err]
    /\ response' = [response EXCEPT ![c] = resp]
    /\ TxRollback(c)

\* The handler goes on after a call that returned no error.
Proceed(c, call, next) ==
    /\ pc' = [pc EXCEPT ![c] = next]
    /\ calls' = [calls EXCEPT ![c] = Append(@, call)]
    /\ lastErr' = [lastErr EXCEPT ![c] = ErrNil]
    /\ UNCHANGED response

\* The item lists a request body decodes to.
Requests(n) == UNION {[1..k -> IncomingOrderItem] : k \in 0..n}

\* Mutant: the empty-list check is missing.
EmptyOrderUnchecked(body) == FALSE

\* len(incomingOrder.Items) == 0
EmptyOrder(body) == Len(body) = 0

\* Decode, the empty-list check and executor.Begin().
CreateOrderBegin(c) ==
    /\ pc[c] = "idle"
    /\ \E decoded \in BOOLEAN, body \in Requests(MaxTotalItems - ItemsHeld),
          err \in Faults :
          /\ items' = [items EXCEPT ![c] = body]
          /\ IF ~decoded
             THEN /\ body = <<>> /\ err = ErrNil
                  /\ pc' = [pc EXCEPT ![c] = "done"]
                  /\ response' = [response EXCEPT ![c] =
                        ErrorResponse(StatusBadRequest, "Invalid request body", 0)]
                  /\ UNCHANGED <<calls, lastErr>>
             ELSE IF EmptyOrder(body)
             THEN /\ err = ErrNil
                  /\ pc' = [pc EXCEPT ![c] = "done"]
                  /\ response' = [response EXCEPT ![c] =
                        ErrorResponse(StatusBadRequest,
                                      "Order must contain at least one item", 0)]
                  /\ UNCHANGED <<calls, lastErr>>
             ELSE IF err # ErrNil
             THEN /\ pc' = [pc EXCEPT ![c] = "done"]
                  /\ calls' = [calls EXCEPT ![c] = Append(@, CallBegin)]
                  /\ lastErr' = [lastErr EXCEPT ![c] = err]
                  /\ response' = [response EXCEPT ![c] =
                        ErrorResponse(StatusInternalServerError,
                                      "Failed to begin transaction", 0)]
             ELSE Proceed(c, CallBegin, "InsertOrder")
    /\ UNCHANGED <<backend, scanVars, storeVars, txVars, totalOrderPrice, vatAmount,
                   outgoingItems, orderItemRecord, product, readVars>>
    /\ UNCHANGED mu

\* uuid.New(), the header with totals 0.0 and InsertOrder.
CreateOrderInsertOrder(c) ==
    /\ pc[c] = "InsertOrder"
    /\ clock' = clock + 1
    /\ \E err \in Faults :
          IF err # ErrNil
          THEN Abort(c, CallInsertOrder, err,
                     ErrorResponse(StatusInternalServerError,
                                   "Failed to insert order", 0))
          ELSE /\ TxInsertOrder(c, OrderRecord(OrderID(c), 0, 0, clock))
               /\ Proceed(c, CallInsertOrder, "GetProductByID")
    /\ UNCHANGED <<backend, scanVars, products, createVars, readVars>>
    /\ Unlock(c)

\* Mutant: the loop takes the items from the last to the first.
CurrentItemBackwards(c) == items[c][Len(items[c]) - Len(outgoingItems[c])]

\* The item the loop of createOrderHandler is at.
CurrentItem(c) == items[c][Len(outgoingItems[c]) + 1]

\* itemVAT := product.Price * product.VATRate
ItemVAT(found) == MulRate(found.Price, found.VATRate)

\* Mutant: the VAT of each unit is rounded before it is added.
AccumulateVATRounded(vat, itemVAT, quantity) == vat + toFixed(itemVAT) * quantity

\* vatAmount += itemVAT * float64(item.Quantity)
AccumulateVAT(vat, itemVAT, quantity) == vat + itemVAT * quantity

\* Mutant: every error of GetProductByID is answered with 500.
GetProductErrorInternal(err, productID) ==
    ErrorResponse(StatusInternalServerError,
                  "Database error fetching product %d", productID)

\* The answer to an error of GetProductByID: 404 naming the product for
\* sql.ErrNoRows, 500 for any other error.
GetProductError(err, productID) ==
    IF err = ErrNoRows
    THEN ErrorResponse(StatusNotFound, "Product with ID %d not found", productID)
    ELSE ErrorResponse(StatusInternalServerError,
                       "Database error fetching product %d", productID)

\* Mutant: the quantity is checked before the product is looked up.
CreateOrderGetProductQuantityFirst(c) ==
    /\ pc[c] = "GetProductByID"
    /\ LET item == CurrentItem(c)
       IN \E err \in Faults \cup {LookupErr(item.ProductID)} :
          /\ err = ErrNil => LookupErr(item.ProductID) = ErrNil
          /\ IF item.Quantity <= 0
             THEN /\ Abort(c, CallGetProduct, err,
                           ErrorResponse(StatusBadRequest,
                                         "Quantity for product %d must be positive",
                                         item.ProductID))
                  /\ product' = [product EXCEPT ![c] = NoProduct]
                  /\ UNCHANGED <<totalOrderPrice, vatAmount, outgoingItems,
                                 orderItemRecord>>
             ELSE IF err # ErrNil
             THEN /\ Abort(c, CallGetProduct, err,
                           GetProductError(err, item.ProductID))
                  /\ product' = [product EXCEPT ![c] = NoProduct]
                  /\ UNCHANGED <<totalOrderPrice, vatAmount, outgoingItems,
                                 orderItemRecord>>
             ELSE LET found == products[item.ProductID]
                      itemTotalPrice == found.Price * item.Quantity
                      itemVAT == ItemVAT(found)
                  IN /\ product' = [product EXCEPT ![c] = found]
                     /\ totalOrderPrice' =
                            [totalOrderPrice EXCEPT ![c] = @ + itemTotalPrice]
                     /\ vatAmount' =
                            [vatAmount EXCEPT ![c] =
                                AccumulateVAT(@, itemVAT, item.Quantity)]
                     /\ outgoingItems' = [outgoingItems EXCEPT ![c] =
                            Append(@, OutgoingOrderItem(item.ProductID,
                                        item.Quantity, found.Price,
                                        toFixed(itemVAT)))]
                     /\ orderItemRecord' = [orderItemRecord EXCEPT ![c] =
                            OrderItemRecord(0, OrderID(c), item.ProductID,
                                            item.Quantity, found.Price,
                                            toFixed(itemVAT))]
                     /\ Proceed(c, CallGetProduct, "InsertOrderItem")
                     /\ UNCHANGED <<orders, orderItems, nextItemID, txVars>>
    /\ UNCHANGED <<backend, scanVars, products, clock, items, readVars>>
    /\ Unlock(c)

\* The loop body up to the insert: GetProductByID through the transaction,
\* the quantity check, the running totals, the outgoing item and the row to
\* insert.
CreateOrderGetProduct(c) ==
    /\ pc[c] = "GetProductByID"
    /\ LET item == CurrentItem(c)
       IN \E err \in Faults \cup {LookupErr(item.ProductID)} :
          /\ err = ErrNil => LookupErr(item.ProductID) = ErrNil
          /\ IF err # ErrNil
             THEN /\ Abort(c, CallGetProduct, err,
                           GetProductError(err, item.ProductID))
                  /\ product' = [product EXCEPT ![c] = NoProduct]
                  /\ UNCHANGED <<totalOrderPrice, vatAmount, outgoingItems,
                                 orderItemRecord>>
             ELSE IF item.Quantity <= 0
             THEN /\ Abort(c, CallGetProduct, err,
                           ErrorResponse(StatusBadRequest,
                                         "Quantity for product %d must be positive",
                                         item.ProductID))
                  /\ product' = [product EXCEPT ![c] = products[item.ProductID]]
                  /\ UNCHANGED <<totalOrderPrice, vatAmount, outgoingItems,
                                 orderItemRecord>>
             ELSE LET found == products[item.ProductID]
                      itemTotalPrice == found.Price * item.Quantity
                      itemVAT == ItemVAT(found)
                  IN /\ product' = [product EXCEPT ![c] = found]
                     /\ totalOrderPrice' =
                            [totalOrderPrice EXCEPT ![c] = @ + itemTotalPrice]
                     /\ vatAmount' =
                            [vatAmount EXCEPT ![c] =
                                AccumulateVAT(@, itemVAT, item.Quantity)]
                     /\ outgoingItems' = [outgoingItems EXCEPT ![c] =
                            Append(@, OutgoingOrderItem(item.ProductID,
                                        item.Quantity, found.Price,
                                        toFixed(itemVAT)))]
                     /\ orderItemRecord' = [orderItemRecord EXCEPT ![c] =
                            OrderItemRecord(0, OrderID(c), item.ProductID,
                                            item.Quantity, found.Price,
                                            toFixed(itemVAT))]
                     /\ Proceed(c, CallGetProduct, "InsertOrderItem")
                     /\ UNCHANGED <<orders, orderItems, nextItemID, txVars>>
    /\ UNCHANGED <<backend, scanVars, products, clock, items, readVars>>
    /\ Unlock(c)

\* InsertOrderItem, then the next item or the end of the loop.
CreateOrderInsertOrderItem(c) ==
    /\ pc[c] = "InsertOrderItem"
    /\ \E err \in Faults :
          IF err # ErrNil
          THEN Abort(c, CallInsertItem, err,
                     ErrorResponse(StatusInternalServerError,
                                   "Failed to insert order item", 0))
          ELSE /\ TxInsertOrderItem(c, orderItemRecord[c])
               /\ Proceed(c, CallInsertItem,
                          IF Len(outgoingItems[c]) < Len(items[c])
                          THEN "GetProductByID" ELSE "UpdateOrderTotals")
    /\ UNCHANGED <<backend, scanVars, products, clock, createVars, readVars>>
    /\ Unlock(c)

\* UpdateOrderTotals with both totals rounded by toFixed.
CreateOrderUpdateOrderTotals(c) ==
    /\ pc[c] = "UpdateOrderTotals"
    /\ \E err \in Faults :
          IF err # ErrNil \/ UpdateFails(OrderID(c))
          THEN Abort(c, CallUpdateTotals, ErrStore,
                     ErrorResponse(StatusInternalServerError,
                                   "Failed to update order totals", 0))
          ELSE /\ TxUpdateOrderTotals(c, OrderID(c), toFixed(totalOrderPrice[c]),
                                      toFixed(vatAmount[c]))
               /\ Proceed(c, CallUpdateTotals, "Commit")
    /\ UNCHANGED <<backend, scanVars, products, clock, createVars, readVars>>
    /\ Unlock(c)

\* The receipt of an accepted order.
OutgoingOrder(c) ==
    OrderResponse(StatusCreated, OrderID(c), toFixed(totalOrderPrice[c]),
                  toFixed(vatAmount[c]), outgoingItems[c])

\* tx.Commit(), the 201 response, and the deferred tx.Rollback().
CreateOrderCommit(c) ==
    /\ pc[c] = "Commit"
    /\ \E err \in Faults :
          IF err # ErrNil
          THEN Abort(c, CallCommit, err,
                     ErrorResponse(StatusInternalServerError,
                                   "Failed to commit transaction", 0))
          ELSE /\ TxCommit(c)
               /\ pc' = [pc EXCEPT ![c] = "done"]
               /\ calls' = [calls EXCEPT ![c] = @ \o <<CallCommit, CallRollback>>]
               /\ lastErr' = [lastErr EXCEPT ![c] = ErrNil]
               /\ response' = [response EXCEPT ![c] = OutgoingOrder(c)]
    /\ UNCHANGED <<backend, scanVars, products, clock, createVars, readVars>>
    /\ UNCHANGED mu

\* -------------------------------------------------------- getOrderHandler

\* DBExecutor.QueryRow, "SELECT ... FROM orders WHERE order_id = $1", scanned.
QueryOrderErr(orderID) ==
    IF orderID \in DOMAIN orders THEN ErrNil ELSE ErrNoRows

\* Mutant: the rows come back newest first.
QueryOrderItemsNewestFirst(orderID) ==
    LET rows == ItemsOf(orderItems, orderID)
    IN [i \in 1..Len(rows) |->
           OutgoingOrderItem(rows[Len(rows) + 1 - i].ProductID,
                             rows[Len(rows) + 1 - i].Quantity,
                             rows[Len(rows) + 1 - i].UnitPrice,
                             rows[Len(rows) + 1 - i].ItemVAT)]

\* DBExecutor.Query, "SELECT product_id, quantity, unit_price, item_vat FROM
\* order_items WHERE order_id = $1", scanned row by row by
\* GetOrderItemsByOrderID.
QueryOrderItems(orderID) ==
    LET rows == ItemsOf(orderItems, orderID)
    IN [i \in 1..Len(rows) |->
           OutgoingOrderItem(rows[i].ProductID, rows[i].Quantity,
                             rows[i].UnitPrice, rows[i].ItemVAT)]

\* A retrieval handler returns.
Respond(r, call, err, resp) ==
    /\ pc' = [pc EXCEPT ![r] = "done"]
    /\ calls' = [calls EXCEPT ![r] = Append(@, call)]
    /\ lastErr' = [lastErr EXCEPT ![r] = err]
    /\ response' = [response EXCEPT ![r] = resp]

\* Mutant: sql.ErrNoRows is not told apart from other errors.
GetOrderErrorInternal(err) ==
    ErrorResponse(StatusInternalServerError, "Failed to retrieve order", 0)

\* getOrderHandler's answer to an error of GetOrderByID.
GetOrderError(err) ==
    IF err = ErrNoRows
    THEN ErrorResponse(StatusNotFound, "Order not found", 0)
    ELSE ErrorResponse(StatusInternalServerError, "Failed to retrieve order", 0)

\* GetOrderByID up to the scan of the header row.
GetOrderQueryRow(r) ==
    /\ pc[r] = "idle"
    /\ \E orderID \in OrderIDs :
          /\ readID' = [readID EXCEPT ![r] = orderID]
          /\ doneAtStart' = [doneAtStart EXCEPT ![r] =
                                {c \in Creators : pc[c] = "done"}]
          /\ \E err \in Faults \cup {QueryOrderErr(orderID)} :
                /\ err = ErrNil => QueryOrderErr(orderID) = ErrNil
                /\ IF err # ErrNil
                   THEN /\ Respond(r, CallQueryOrder, err, GetOrderError(err))
                        /\ UNCHANGED orderRecord
                   ELSE /\ orderRecord' = [orderRecord EXCEPT ![r] = orders[orderID]]
                        /\ Proceed(r, CallQueryOrder, "GetOrderItemsByOrderID")
    /\ UNCHANGED <<backend, scanVars, storeVars, txVars, createVars, earlier, dirty>>
    /\ Unlock(r)

\* GetOrderItemsByOrderID and the assembled OutgoingOrder.
GetOrderQueryItems(r) ==
    /\ pc[r] = "GetOrderItemsByOrderID"
    /\ \E err \in Faults :
          IF err # ErrNil
          THEN Respond(r, CallQueryItems, err, GetOrderError(err))
          ELSE Respond(r, CallQueryItems, err,
                       OrderResponse(StatusOK, orderRecord[r].OrderID,
                                     orderRecord[r].TotalPrice,
                                     orderRecord[r].VATAmount,
                                     QueryOrderItems(readID[r])))
    /\ UNCHANGED <<backend, scanVars, storeVars, txVars, createVars, readVars>>
    /\ Unlock(r)

\* ---------------------------------------------------------- specification

Next ==
    \/ \E c \in Creators : CreateOrderBegin(c)
    \/ \E c \in Creators : CreateOrderInsertOrder(c)
    \/ \E c \in Creators : CreateOrderGetProduct(c)
    \/ \E c \in Creators : CreateOrderInsertOrderItem(c)
    \/ \E c \in Creators : CreateOrderUpdateOrderTotals(c)
    \/ \E c \in Creators : CreateOrderCommit(c)
    \/ \E r \in Readers : GetOrderQueryRow(r)
    \/ \E r \in Readers : GetOrderQueryItems(r)

Spec == Init /\ [][Next]_vars

\* ------------------------------------------- any products table behind SQL

\* The handlers on the database/sql adapter with a products table of any
\* prices and VAT rates: DBProduct.Price and DBProduct.VATRate are float64
\* columns scanned as they are.  One creation and one retrieval.

\* Unit prices: 79.99, 9.999 and 0.105.
Prices == {799900, 99990, 1050}
\* VAT rates: 0.22 and 0.15.
VATRates == {22, 15}

Catalogs ==
    {(1 :> DBProduct(1, p1, r)) @@ (2 :> DBProduct(2, p2, r)) :
        p1 \in Prices, p2 \in Prices, r \in VATRates}

PricingInit ==
    /\ backend = "live"
    /\ products \in Catalogs
    /\ NoRequests
    /\ NoScan

PricingNext ==
    \/ CreateOrderBegin(1)
    \/ CreateOrderInsertOrder(1)
    \/ CreateOrderGetProduct(1)
    \/ CreateOrderInsertOrderItem(1)
    \/ CreateOrderUpdateOrderTotals(1)
    \/ CreateOrderCommit(1)
    \/ \E r \in Readers : GetOrderQueryRow(r)
    \/ \E r \in Readers : GetOrderQueryItems(r)

PricingSpec == PricingInit /\ [][PricingNext]_vars

\* --------------------------------------- the store through its executor

\* The in-memory store driven call by call through transactions obtained
\* from InMemoryDB.Begin, with any order id at any call, while clients
\* retrieve orders, repeat a retrieval and list the products.

StoreInit == Init /\ backend = "mock"

\* The transaction the calls go through.  An InMemoryTx holds nothing but
\* the pointer to the store, so one transaction stands for all.
StoreTx == CHOOSE c \in Creators : TRUE

StoreCalls == LET RECURSIVE Sum(_)
                  Sum(S) == IF S = {} THEN 0
                            ELSE LET c == CHOOSE x \in S : TRUE
                                 IN Len(calls[c]) + Sum(S \ {c})
              IN Sum(Creators)

\* A client whose first retrieval has begun.
Started(r) == pc[r] # "idle" \/ earlier[r] # NoEarlier

\* A transaction call returns: the call and its error are logged, and the
\* clients that are retrieving learn of a write that took effect.
StoreReturn(c, call, err) ==
    /\ calls' = [calls EXCEPT ![c] = Append(@, call)]
    /\ lastErr' = [lastErr EXCEPT ![c] = err]
    /\ dirty' = [r \in Readers |->
                    dirty[r] \/ (Started(r) /\ <<orders', orderItems', nextItemID'>>
                                                # <<orders, orderItems, nextItemID>>)]
    /\ UNCHANGED <<backend, scanVars, products, pc, createVars, response, readID,
                   orderRecord, doneAtStart, earlier>>

\* InsertOrder through transaction c: a header with totals 0.0.
StoreInsertOrder(c) ==
    /\ StoreCalls < MaxStoreCalls
    /\ \E d \in Creators :
          /\ clock' = clock + 1
          /\ TxInsertOrder(c, OrderRecord(OrderID(d), 0, 0, clock))
    /\ StoreReturn(c, CallInsertOrder, ErrNil)
    /\ Unlock(c)

\* UpdateOrderTotals through transaction c.
StoreUpdateOrderTotals(c) ==
    /\ StoreCalls < MaxStoreCalls
    /\ \E d \in Creators :
          IF UpdateFails(OrderID(d))
          THEN /\ UNCHANGED <<orders, orderItems, nextItemID, txVars>>
               /\ StoreReturn(c, CallUpdateTotals, ErrOrderNotFound(OrderID(d)))
          ELSE /\ TxUpdateOrderTotals(c, OrderID(d), toFixed(TestTotalPrice),
                                      toFixed(TestVATAmount))
               /\ StoreReturn(c, CallUpdateTotals, ErrNil)
    /\ UNCHANGED clock
    /\ Unlock(c)

\* InsertOrderItem through transaction c: one unit of product 1.
StoreInsertOrderItem(c) ==
    /\ StoreCalls < MaxStoreCalls
    /\ \E d \in Creators :
          TxInsertOrderItem(c, OrderItemRecord(0, OrderID(d), 1, 1,
                                               products[1].Price,
                                               toFixed(ItemVAT(products[1]))))
    /\ StoreReturn(c, CallInsertItem, ErrNil)
    /\ UNCHANGED clock
    /\ Unlock(c)

\* The products a lookup through the transaction asks for.
LookupIDs == {1, UnknownProduct}

\* Mutant: a lookup takes the product it found out of the catalog.
TxQueryRowProductTaking(productID) ==
    /\ products' = [id \in DOMAIN products \ {productID} |-> products[id]]
    /\ UNCHANGED <<orders, orderItems, nextItemID, txVars>>

\* InMemoryTx.QueryRow, "FROM products WHERE id = $1": the map is read and
\* left as it is.
TxQueryRowProduct(productID) ==
    UNCHANGED <<products, orders, orderItems, nextItemID, txVars>>

\* GetProductByID through transaction c.
StoreGetProductByID(c) ==
    /\ StoreCalls < MaxStoreCalls
    /\ \E productID \in LookupIDs :
          /\ product' = [product EXCEPT ![c] =
                            IF LookupErr(productID) = ErrNil
                            THEN products[productID] ELSE NoProduct]
          /\ lastErr' = [lastErr EXCEPT ![c] = LookupErr(productID)]
          /\ TxQueryRowProduct(productID)
    /\ calls' = [calls EXCEPT ![c] = Append(@, CallGetProduct)]
    /\ UNCHANGED <<backend, scanVars, clock, pc, items, totalOrderPrice, vatAmount,
                   outgoingItems, orderItemRecord, response, readVars>>
    /\ Unlock(c)

\* tx.Commit()
StoreCommit(c) ==
    /\ StoreCalls < MaxStoreCalls
    /\ TxCommit(c)
    /\ StoreReturn(c, CallCommit, ErrNil)
    /\ UNCHANGED clock
    /\ UNCHANGED mu

\* tx.Rollback()
StoreRollback(c) ==
    /\ StoreCalls < MaxStoreCalls
    /\ TxRollback(c)
    /\ StoreReturn(c, CallRollback, ErrNil)
    /\ UNCHANGED clock
    /\ UNCHANGED mu

\* The client sends GET /orders/{id} once more.
GetOrderAgain(r) ==
    /\ pc[r] = "done"
    /\ earlier[r] = NoEarlier
    /\ calls[r][1] = CallQueryOrder
    /\ earlier' = [earlier EXCEPT ![r] = [id |-> readID[r],
                                          response |-> response[r]]]
    /\ pc' = [pc EXCEPT ![r] = "idle"]
    /\ calls' = [calls EXCEPT ![r] = <<>>]
    /\ UNCHANGED <<backend, scanVars, storeVars, txVars, createVars, lastErr, response,
                   readID, orderRecord, doneAtStart, dirty>>
    /\ UNCHANGED mu

\* Mutant: the listing takes the products out of the catalog.
DBQueryDraining ==
    /\ products' = EmptyMap
    /\ UNCHANGED <<orders, orderItems, nextItemID, clock>>

\* InMemoryDB.Query: the store is read under the read lock and left as it is.
DBQuery == UNCHANGED storeVars

\* The orders in which the rows of "SELECT ... FROM products" can come.  The
\* iteration order of a Go map is not defined: the runtime starts a range
\* over a map at a random entry and goes round, so the rows of a map filled
\* in the order of its ids come in any rotation of that order.  A SELECT
\* without ORDER BY returns the rows of a table in any order.
QueryProducts ==
    LET n == Cardinality(DOMAIN products)
        ids == CHOOSE f \in [1..n -> DOMAIN products] :
                   \A i, j \in 1..n : i < j => f[i] < f[j]
    IN IF n = 0 THEN {<<>>}
       ELSE IF backend = "mock"
       THEN {[i \in 1..n |-> ids[((i + k - 1) % n) + 1]] : k \in 0..(n - 1)}
       ELSE {f \in [1..n -> DOMAIN products] :
                \A i, j \in 1..n : i # j => f[i] # f[j]}

\* A Go slice: nil or not, and its elements.
Slice(isNil, elems) == [isNil |-> isNil, elems |-> elems]

\* GetAllProducts: "var products []DBProduct" with one append per row, nil
\* when there is no row.
GetAllProducts(rows) ==
    Slice(Len(rows) = 0, [i \in DOMAIN rows |-> products[rows[i]]])

\* Mutant: the public slice is declared without a value and stays nil when
\* there is nothing to append.
PublicProductsNil(dbProducts) == dbProducts

\* publicProducts := []Product{} with one append per product.
PublicProducts(dbProducts) == Slice(FALSE, dbProducts.elems)

\* json.NewEncoder(w).Encode of a slice with the default status 200: null
\* for a nil slice, an array otherwise.
EncodeProducts(slice) ==
    IF slice.isNil
    THEN [OrderResponse(StatusOK, -1, 0, 0, <<>>) EXCEPT !.message = "null"]
    ELSE OrderResponse(StatusOK, -1, 0, 0, slice.elems)

\* getProductsHandler: GetAllProducts and the array of public products.
GetProducts(r) ==
    /\ pc[r] = "idle"
    /\ \E err \in Faults, rows \in QueryProducts :
          IF err # ErrNil
          THEN Respond(r, CallQueryProducts, err,
                       ErrorResponse(StatusInternalServerError,
                                     "Failed to retrieve products", 0))
          ELSE Respond(r, CallQueryProducts, err,
                       EncodeProducts(PublicProducts(GetAllProducts(rows))))
    /\ DBQuery
    /\ UNCHANGED <<backend, scanVars, txVars, createVars, readVars>>
    /\ Unlock(r)

StoreNext ==
    \/ StoreInsertOrder(StoreTx)
    \/ StoreUpdateOrderTotals(StoreTx)
    \/ StoreInsertOrderItem(StoreTx)
    \/ StoreGetProductByID(StoreTx)
    \/ StoreCommit(StoreTx)
    \/ StoreRollback(StoreTx)
    \/ \E r \in Readers : GetOrderQueryRow(r)
    \/ \E r \in Readers : GetOrderQueryItems(r)
    \/ \E r \in Readers : GetOrderAgain(r)
    \/ \E r \in Readers : GetProducts(r)

StoreSpec == StoreInit /\ [][StoreNext]_vars

\* ------------------------------------------------------ listing products

\* GET /products on the in-memory catalog and on a products table holding
\* any part of it, none of it included.

Restrict(m, S) == [k \in S |-> m[k]]

ListingInit ==
    /\ backend \in {"mock", "live"}
    /\ products \in IF backend = "mock" THEN {Populate}
                     ELSE {Restrict(Populate, S) : S \in SUBSET DOMAIN Populate}
    /\ NoRequests
    /\ NoScan

ListingNext == \E r \in Readers : GetProducts(r)

ListingSpec == ListingInit /\ [][ListingNext]_vars

\* ------------------------------------------- the lock of the in-memory store

\* The handlers on the in-memory backend with each store operation in two
\* steps: the operation takes store.mu, which blocks while the lock is not
\* to be had, and then runs and returns, the deferred unlock with it.

\* The request bodies: one item, the two items of the success test, an
\* unknown product, a zero quantity, no item.
LockRequests ==
    {<<Item(1, 1)>>, <<Item(1, 1), Item(2, 2)>>, <<Item(UnknownProduct, 1)>>,
     <<Item(1, 0)>>, <<>>}

Holders(modes) == {w \in Creators \cup Readers : mu[w] \in modes}

\* The operations of InMemoryTx.Exec and InMemoryTx.QueryRow: the header
\* insert and the totals update, the product lookup and the item insert.
TxOperations == {CallInsertOrder, CallUpdateTotals, CallGetProduct, CallInsertItem}

\* The operations of InMemoryDB.QueryRow and InMemoryDB.Query: the header
\* fetch (and the listing) at the start of a request, the items fetch.
DBOperations == {"idle", "GetOrderItemsByOrderID"}

\* tx.store.mu.Lock() of InMemoryTx.Exec and InMemoryTx.QueryRow: the caller
\* has the lock at once when nobody holds it or waits for it, and is blocked
\* otherwise.
MuLock(c) ==
    /\ pc[c] \in TxOperations
    /\ mu[c] = Unlocked
    /\ mu' = [mu EXCEPT ![c] =
                 IF Holders({RLocked, Locked, LockPending}) = {}
                 THEN Locked ELSE LockPending]
    /\ UNCHANGED <<backend, scanVars, storeVars, txVars, pc, createVars, calls, lastErr,
                   response, readVars>>

\* A blocked Lock() returns when nobody holds the lock.
MuLockAcquire(c) ==
    /\ mu[c] = LockPending
    /\ Holders({RLocked, Locked}) = {}
    /\ mu' = [mu EXCEPT ![c] = Locked]
    /\ UNCHANGED <<backend, scanVars, storeVars, txVars, pc, createVars, calls, lastErr,
                   response, readVars>>

\* db.store.mu.RLock() of InMemoryDB.Query and InMemoryDB.QueryRow: it
\* returns when no writer holds the lock and no Lock() is blocked.
MuRLock(r) ==
    /\ pc[r] \in DBOperations
    /\ mu[r] = Unlocked
    /\ Holders({Locked, LockPending}) = {}
    /\ mu' = [mu EXCEPT ![r] = RLocked]
    /\ UNCHANGED <<backend, scanVars, storeVars, txVars, pc, createVars, calls, lastErr,
                   response, readVars>>

\* InMemoryTx.Exec under the lock.
TxExec(c) ==
    /\ mu[c] = Locked
    /\ \/ CreateOrderInsertOrder(c)
       \/ CreateOrderUpdateOrderTotals(c)

\* InMemoryTx.QueryRow under the lock.
TxQueryRow(c) ==
    /\ mu[c] = Locked
    /\ \/ CreateOrderGetProduct(c)
       \/ CreateOrderInsertOrderItem(c)

\* InMemoryDB.QueryRow under the lock.
DBQueryRow(r) ==
    /\ mu[r] = RLocked
    /\ GetOrderQueryRow(r)

\* InMemoryDB.Query under the lock.
DBQueryRows(r) ==
    /\ mu[r] = RLocked
    /\ \/ GetOrderQueryItems(r)
       \/ GetProducts(r)

LockInit == Init /\ backend = "mock"

LockNext ==
    \/ \E c \in Creators : CreateOrderBegin(c) /\ items'[c] \in LockRequests
    \/ \E c \in Creators : MuLock(c)
    \/ \E c \in Creators : MuLockAcquire(c)
    \/ \E c \in Creators : TxExec(c)
    \/ \E c \in Creators : TxQueryRow(c)
    \/ \E c \in Creators : CreateOrderCommit(c)
    \/ \E r \in Readers : MuRLock(r)
    \/ \E r \in Readers : DBQueryRow(r)
    \/ \E r \in Readers : DBQueryRows(r)

LockSpec == LockInit /\ [][LockNext]_vars

\* The Go scheduler runs every goroutine that can run: a step that stays
\* possible is taken.
FairLockSpec == LockSpec /\ WF_vars(LockNext)

\* ------------------------------------------------ scanning rows by hand

\* InMemoryRow.Scan and InMemoryRows.Next and Scan called on any row and any
\* row set of up to MaxColumns columns and MaxRows rows with any
\* destinations.

Values == {Value(t, 1) : t \in ScanTypes}
RowData == UNION {[1..n -> Values] : n \in 0..MaxColumns}
Dests == UNION {[1..n -> {Pointer(t) : t \in DestTypes}] : n \in 0..MaxColumns}

ScanInit ==
    /\ backend = "mock"
    /\ products = Populate
    /\ NoRequests
    /\ dest \in Dests
    /\ returned = NotCalled
    /\ \/ /\ inMemoryRow \in {InMemoryRow(d, ErrNil) : d \in RowData}
                   \cup {InMemoryRow(<<>>, ErrNoRows),
                         InMemoryRow(<<>>, ErrNotImplemented)}
          /\ inMemoryRows = NoRows
       \/ /\ inMemoryRow = NoRow
          /\ inMemoryRows \in {InMemoryRows(ds, 0) :
                         ds \in UNION {[1..n -> [1..MaxColumns -> Values]] :
                                          n \in 0..MaxRows}}

\* row.Scan(dest...)
ScanRow ==
    /\ inMemoryRow # NoRow
    /\ returned = NotCalled
    /\ returned' = InMemoryRowScan(inMemoryRow, dest).err
    /\ dest' = InMemoryRowScan(inMemoryRow, dest).dest
    /\ UNCHANGED <<handlerVars, inMemoryRow, inMemoryRows>>

\* rows.Next()
NextRows ==
    /\ inMemoryRows # NoRows
    /\ returned # Panic
    /\ inMemoryRows.currentIndex <= Len(inMemoryRows.data)
    /\ inMemoryRows' = [inMemoryRows EXCEPT !.currentIndex = @ + 1]
    /\ returned' = IF inMemoryRows'.currentIndex <= Len(inMemoryRows.data)
                   THEN "true" ELSE "false"
    /\ UNCHANGED <<handlerVars, inMemoryRow, dest>>

\* rows.Scan(dest...)
ScanRows ==
    /\ inMemoryRows # NoRows
    /\ returned # Panic
    /\ returned' = InMemoryRowsScan(inMemoryRows, dest).err
    /\ dest' = InMemoryRowsScan(inMemoryRows, dest).dest
    /\ UNCHANGED <<handlerVars, inMemoryRow, inMemoryRows>>

ScanNext ==
    \/ ScanRow
    \/ NextRows
    \/ ScanRows

ScanSpec == ScanInit /\ [][ScanNext]_vars

\* ------------------------------------------------------------ properties

\* Rounding to two decimals, half away from zero, of a non-negative amount.
Round2(x) == ((x + 50) \div 100) * 100

\* The sum of unit_price * quantity over a request's items, unrounded.
RECURSIVE SumPrice(_)
SumPrice(its) ==
    IF its = <<>> THEN 0
    ELSE products[Head(its).ProductID].Price * Head(its).Quantity
         + SumPrice(Tail(its))

\* The sum of unit_price * vat_rate * quantity over a request's items,
\* unrounded.
RECURSIVE SumVAT(_)
SumVAT(its) ==
    IF its = <<>> THEN 0
    ELSE (products[Head(its).ProductID].Price
          * products[Head(its).ProductID].VATRate * Head(its).Quantity) \div 100
         + SumVAT(Tail(its))

Called(w, call) == \E i \in 1..Len(calls[w]) : calls[w][i] = call

Accepted(c) == pc[c] = "done" /\ response[c].status = StatusCreated

\* The call that made a creation fail: the one before the deferred Rollback.
FailedCall(c) ==
    IF Len(calls[c]) >= 2 /\ response[c].status # StatusCreated
    THEN calls[c][Len(calls[c]) - 1] ELSE "none"

\* C1: on the in-memory backend, once a creation that began a transaction
\* has returned an error, the store holds neither a header for its order id
\* nor an item row carrying that order id.
C1_FailedCreationLeavesNothing ==
    \A c \in Creators :
        (backend = "mock" /\ pc[c] = "done" /\ Called(c, CallBegin)
         /\ response[c].status # StatusCreated)
        => /\ OrderID(c) \notin DOMAIN orders
           /\ ItemsOf(orderItems, OrderID(c)) = <<>>

\* C2: writes made through a transaction are not in the shared store before
\* Commit, and a retrieval that returns a header returns the order's final
\* totals and all its items.
C2_NoPartialOrderVisible ==
    /\ \A o \in DOMAIN orders : Called(o, CallCommit)
    /\ \A o \in DOMAIN orderItems : Called(o, CallCommit)
    /\ \A r \in Readers :
          (pc[r] = "done" /\ response[r].status = StatusOK)
          => /\ response[r].TotalOrderPrice = Round2(SumPrice(items[readID[r]]))
             /\ response[r].VATAmount = Round2(SumVAT(items[readID[r]]))
             /\ Len(response[r].Items) = Len(items[readID[r]])

\* C3: an accepted order's order_price is the unrounded sum of
\* unit_price * quantity rounded once, its order_vat the unrounded sum of
\* unit_price * vat_rate * quantity rounded once, and the header holds the
\* same two values; the two items of the success test give 1500.00 and 330.00.
C3_AcceptedTotals ==
    \A c \in Creators :
        Accepted(c)
        => /\ response[c].TotalOrderPrice = Round2(SumPrice(items[c]))
           /\ response[c].VATAmount = Round2(SumVAT(items[c]))
           /\ OrderID(c) \in DOMAIN orders
           /\ orders[OrderID(c)].TotalPrice = response[c].TotalOrderPrice
           /\ orders[OrderID(c)].VATAmount = response[c].VATAmount
           /\ (products = TestCatalog /\ items[c] = <<Item(1, 1), Item(2, 2)>>)
              => /\ response[c].TotalOrderPrice = 15000000
                 /\ response[c].VATAmount = 3300000

\* An order accepted from several items whose VAT sum rounds differently
\* when each line is rounded first.
C3_Witness ==
    \E c \in Creators :
        /\ Accepted(c)
        /\ items[c] = <<Item(1, 1), Item(2, 2)>>
        /\ products = Populate
        /\ response[c].VATAmount = 3651900

\* The per-unit VAT of a product, rounded to two decimals.
UnitVAT(productID) ==
    Round2((products[productID].Price * products[productID].VATRate) \div 100)

C5_InsertedVatScaledByQuantity ==
    \A c \in Creators :
        Accepted(c)
        => \A i \in 1..Len(ItemsOf(orderItems, OrderID(c))) :
              LET row == orderItems[OrderID(c)][i]
              IN row.ItemVAT =
                    Round2((row.UnitPrice * products[row.ProductID].VATRate
                            * row.Quantity) \div 100)

\* C6: a creation request with an empty item list is answered 400 without
\* Begin or any other executor call, and the store is left as it was.
C6_EmptyOrderRejected ==
    [][\A c \in Creators :
          (pc[c] = "idle" /\ pc'[c] # "idle" /\ items'[c] = <<>>)
          => /\ pc'[c] = "done"
             /\ response'[c].status = StatusBadRequest
             /\ calls'[c] = <<>>
             /\ UNCHANGED <<storeVars, txVars>>]_vars

\* An empty item list has been rejected.
C6_Witness ==
    \E c \in Creators :
        /\ pc[c] = "done"
        /\ items[c] = <<>>
        /\ response[c].message = "Order must contain at least one item"
        /\ calls[c] = <<>>

\* The item at which a creation stopped.
FailedItem(c) == items[c][Len(outgoingItems[c]) + 1]

\* C7: a creation rejected for a non-positive quantity is answered 400 naming
\* the item's product id, never commits, and leaves no header and no item
\* row of its order in the store.
C7_BadQuantityLeavesNoWrites ==
    \A c \in Creators :
        (pc[c] = "done" /\ FailedCall(c) = CallGetProduct
         /\ lastErr[c] = ErrNil)
        => /\ response[c].status = StatusBadRequest
           /\ response[c].id = FailedItem(c).ProductID
           /\ ~Called(c, CallCommit)
           /\ OrderID(c) \notin DOMAIN orders
           /\ ItemsOf(orderItems, OrderID(c)) = <<>>

\* C8: a product lookup that finds no row is answered 404 naming the
\* product id; any other lookup or store error is answered 500; a not-found
\* is never answered 500 and no other error is answered 404.
C8_ProductLookupErrors ==
    \A c \in Creators :
        pc[c] = "done"
        => /\ (FailedCall(c) = CallGetProduct /\ lastErr[c] = ErrNoRows)
              => /\ response[c].status = StatusNotFound
                 /\ response[c].message = "Product with ID %d not found"
                 /\ response[c].id = FailedItem(c).ProductID
                 /\ FailedItem(c).ProductID \notin DOMAIN products
           /\ lastErr[c] = ErrStore
              => response[c].status = StatusInternalServerError
           /\ response[c].status = StatusNotFound
              => (FailedCall(c) = CallGetProduct /\ lastErr[c] = ErrNoRows)

\* One creation stopped at an unknown product, another at a lookup that
\* failed otherwise.
C8_Witness ==
    \E c, d \in Creators :
        /\ pc[c] = "done" /\ FailedCall(c) = CallGetProduct
        /\ lastErr[c] = ErrNoRows /\ response[c].status = StatusNotFound
        /\ response[c].id = UnknownProduct
        /\ pc[d] = "done" /\ FailedCall(d) = CallGetProduct
        /\ lastErr[d] = ErrStore
        /\ response[d].status = StatusInternalServerError

\* C9: retrieving an order id that has no header is answered 404 "Order not
\* found" without querying the items; any other failure of the header read
\* or of the items read is answered 500.
C9_OrderNotFound ==
    \A r \in Readers :
        pc[r] = "done"
        => /\ lastErr[r] = ErrNoRows
              => /\ response[r].status = StatusNotFound
                 /\ response[r].message = "Order not found"
                 /\ calls[r] = <<CallQueryOrder>>
           /\ lastErr[r] = ErrStore
              => response[r].status = StatusInternalServerError
           /\ lastErr[r] = ErrNil => response[r].status = StatusOK
           /\ readID[r] \notin DOMAIN orders
              => /\ calls[r] = <<CallQueryOrder>>
                 /\ lastErr[r] # ErrStore => response[r].status = StatusNotFound

\* The retrieval of the nonexistent order has been answered 404.
C9_Witness ==
    \E r \in Readers :
        /\ pc[r] = "done"
        /\ readID[r] = NonexistentOrder
        /\ response[r].status = StatusNotFound
        /\ response[r].message = "Order not found"

\* C10: a retrieval begun after an order was accepted returns the order id,
\* totals and items of the creation response, the items in the order of the
\* request's item list.
C10_FetchAfterWrite ==
    \A r \in Readers :
        (pc[r] = "done" /\ response[r].status = StatusOK
         /\ readID[r] \in doneAtStart[r] /\ Accepted(readID[r]))
        => /\ response[r] = [response[readID[r]] EXCEPT !.status = StatusOK]
           /\ Len(response[r].Items) = Len(items[readID[r]])
           /\ \A i \in 1..Len(response[r].Items) :
                 /\ response[r].Items[i].ProductID = items[readID[r]][i].ProductID
                 /\ response[r].Items[i].Quantity = items[readID[r]][i].Quantity

\* An accepted order of two different items has been retrieved afterwards.
C10_Witness ==
    \E r \in Readers :
        /\ pc[r] = "done" /\ response[r].status = StatusOK
        /\ readID[r] \in doneAtStart[r] /\ Accepted(readID[r])
        /\ items[readID[r]] = <<Item(1, 1), Item(2, 2)>>

\* C11: a step of an order retrieval or of a product listing leaves the
\* products, the orders, the order items and the next item id as they were;
\* and a client's second retrieval of the same order id, when no write took
\* effect since its first retrieval began, returns the first one's response.
C11_ReadsLeaveStoreUnchanged ==
    [][\A r \in Readers :
          /\ pc'[r] # pc[r]
             => UNCHANGED <<products, orders, orderItems, nextItemID>>
          /\ (pc'[r] = "done" /\ earlier'[r] # NoEarlier
              /\ calls'[r][1] = CallQueryOrder
              /\ earlier'[r].id = readID'[r] /\ ~dirty'[r])
             => response'[r] = earlier'[r].response]_vars

\* An order with an item has been retrieved twice with no write in between.
C11_Witness ==
    \E r \in Readers :
        /\ pc[r] = "done" /\ earlier[r] # NoEarlier
        /\ calls[r] = <<CallQueryOrder, CallQueryItems>>
        /\ earlier[r].id = readID[r] /\ ~dirty[r]
        /\ response[r].status = StatusOK
        /\ Len(response[r].Items) > 0
        /\ response[r] = earlier[r].response

\* The item ids of the rows of store.orderItems.
StoredItemIDs(oi) ==
    UNION {{oi[o][i].ItemID : i \in 1..Len(oi[o])} : o \in DOMAIN oi}

\* C12: on the in-memory store, under every interleaving of creations, no
\* two item rows share an item id, and a row that an insert adds carries an
\* id greater than the id of every row inserted before it.
C12_ItemIDsDistinctIncreasing ==
    [][backend = "mock"
       => /\ \A o1, o2 \in DOMAIN orderItems' :
                \A i \in 1..Len(orderItems'[o1]), j \in 1..Len(orderItems'[o2]) :
                    (o1 # o2 \/ i # j)
                    => orderItems'[o1][i].ItemID # orderItems'[o2][j].ItemID
          /\ \A o \in DOMAIN orderItems' :
                \A i \in 1..Len(orderItems'[o]) :
                    i > Len(ItemsOf(orderItems, o))
                    => \A id \in StoredItemIDs(orderItems) :
                          orderItems'[o][i].ItemID > id]_vars

\* Two creations have inserted their items alternately.
C12_Witness ==
    /\ backend = "mock"
    /\ \E c, d \in Creators :
          /\ c # d
          /\ Len(ItemsOf(orderItems, OrderID(c))) = 2
          /\ Len(ItemsOf(orderItems, OrderID(d))) = 1
          /\ orderItems[OrderID(c)][1].ItemID < orderItems[OrderID(d)][1].ItemID
          /\ orderItems[OrderID(d)][1].ItemID < orderItems[OrderID(c)][2].ItemID

\* C13: in every reachable state, every item row of the store is filed under
\* its own order id and that order id has a header in the store.
C13_ReferentialIntegrity ==
    \A o \in DOMAIN orderItems :
        /\ o \in DOMAIN orders
        /\ \A i \in 1..Len(orderItems[o]) : orderItems[o][i].OrderID = o

\* Item rows of an accepted creation and of a concurrent failed one.
C13_Witness ==
    \E c, d \in Creators :
        /\ Accepted(c)
        /\ pc[d] = "done" /\ response[d].status # StatusCreated
        /\ Len(ItemsOf(orderItems, OrderID(c))) > 0
        /\ Len(ItemsOf(orderItems, OrderID(d))) > 0
        /\ orderItems[OrderID(d)][1].ItemID < orderItems[OrderID(c)][1].ItemID

\* The last call a transaction made.
LastCall(log) == IF log = <<>> THEN "none" ELSE log[Len(log)]

\* C14: on the in-memory store a Rollback never returns an error; a Rollback
\* called after Commit leaves the headers, their totals and the item rows as
\* they were; and a Rollback called right after a Rollback changes nothing
\* more, so that any number of calls has the effect of one.
C14_RollbackHarmless ==
    [][(calls'[StoreTx] = Append(calls[StoreTx], CallRollback))
       => /\ lastErr'[StoreTx] = ErrNil
          /\ (Called(StoreTx, CallCommit)
              \/ LastCall(calls[StoreTx]) = CallRollback)
             => UNCHANGED <<products, orders, orderItems, nextItemID>>]_vars

\* A header and an item row were written and committed, and Rollback was
\* called afterwards.
C14_Witness ==
    /\ calls[StoreTx] =
          <<CallInsertOrder, CallInsertItem, CallCommit, CallRollback>>
    /\ \E o \in DOMAIN orders : Len(ItemsOf(orderItems, o)) = 1
    /\ lastErr[StoreTx] = ErrNil

\* How often a call occurs in a log.
RECURSIVE Count(_, _)
Count(log, call) ==
    IF log = <<>> THEN 0
    ELSE (IF Head(log) = call THEN 1 ELSE 0) + Count(Tail(log), call)

\* C15: a creation whose Begin fails returns at once with 500, having called
\* neither Rollback nor Commit nor any write, and leaves the store as it
\* was; a creation whose Begin succeeds goes on, and when it returns, on the
\* success path and on every failure path, Rollback has been called exactly
\* once, as its last call, after Commit if Commit was called.
C15_RollbackAlwaysRuns ==
    [][\A c \in Creators :
          /\ (pc[c] = "idle" /\ calls'[c] = <<CallBegin>>
              /\ lastErr'[c] # ErrNil)
             => /\ pc'[c] = "done"
                /\ response'[c].status = StatusInternalServerError
                /\ UNCHANGED <<storeVars, txVars>>
          /\ (pc[c] = "idle" /\ calls'[c] = <<CallBegin>>
              /\ lastErr'[c] = ErrNil)
             => pc'[c] = "InsertOrder"
          /\ (pc[c] \notin {"idle", "done"} /\ pc'[c] = "done")
             => /\ calls'[c][1] = CallBegin
                /\ LastCall(calls'[c]) = CallRollback
                /\ Count(calls'[c], CallRollback) = 1
          /\ (pc[c] \notin {"idle", "done"} /\ pc'[c] # "done")
             => ~Called(c, CallRollback)']_vars

\* One creation was accepted and has rolled back after its Commit, one
\* failed after Begin and has rolled back, or failed at Begin and has not.
C15_Witness ==
    \E c, d \in Creators :
        /\ Accepted(c)
        /\ Called(c, CallCommit) /\ LastCall(calls[c]) = CallRollback
        /\ pc[d] = "done"
        /\ calls[d] = <<CallBegin>>
        /\ response[d].status = StatusInternalServerError

\* The calls of a creation of n items up to and including Commit.
RECURSIVE ItemCalls(_)
ItemCalls(n) ==
    IF n = 0 THEN <<>>
    ELSE <<CallGetProduct, CallInsertItem>> \o ItemCalls(n - 1)

WorkflowCalls(n) ==
    <<CallBegin, CallInsertOrder>> \o ItemCalls(n)
        \o <<CallUpdateTotals, CallCommit>>

\* A creation that began a transaction has returned an error.
Failed(c) ==
    pc[c] = "done" /\ Called(c, CallBegin) /\ response[c].status # StatusCreated

\* C16 as stated: Commit is called at most once and only after the header
\* insert, every item's lookup, check and insert and the totals update; a
\* creation that has failed, at whatever step, has not called Commit and has
\* called nothing after the failing step but Rollback.
C16_CommitNeverOnFailure ==
    \A c \in Creators :
        /\ Count(calls[c], CallCommit) <= 1
        /\ Called(c, CallCommit)
           => /\ Len(calls[c]) >= 2 * Len(items[c]) + 4
              /\ SubSeq(calls[c], 1, 2 * Len(items[c]) + 4)
                    = WorkflowCalls(Len(items[c]))
        /\ Failed(c)
           => /\ ~Called(c, CallCommit)
              /\ LastCall(calls[c]) \in {CallBegin, CallRollback}

\* C16, amended: Commit is called at most once and only after the header
\* insert, every item's lookup, check and insert and the totals update, all
\* of them successful; 201 is answered only after Commit; the step at which
\* a creation fails ends the request with the failing call followed by
\* Rollback alone (by nothing when Begin fails), without Commit unless the
\* failing call is Commit itself; and a request that has returned makes no
\* further call.
C16_CommitOnlyAfterAllWrites ==
    [][\A c \in Creators :
          /\ Count(calls'[c], CallCommit) <= 1
          /\ Called(c, CallCommit)'
             => /\ Len(calls'[c]) >= 2 * Len(items'[c]) + 4
                /\ SubSeq(calls'[c], 1, 2 * Len(items'[c]) + 4)
                      = WorkflowCalls(Len(items'[c]))
                /\ \A i \in 1..Len(items'[c]) :
                      /\ items'[c][i].ProductID \in DOMAIN products
                      /\ items'[c][i].Quantity > 0
          /\ response'[c].status = StatusCreated
             => (Called(c, CallCommit)' /\ lastErr'[c] = ErrNil)
          /\ (response[c] = NoResponse
              /\ response'[c].status \notin {0, StatusCreated})
             => /\ pc'[c] = "done"
                /\ pc[c] # "Commit" => ~Called(c, CallCommit)'
                /\ pc[c] = "idle" => calls'[c] \in {<<>>, <<CallBegin>>}
                /\ pc[c] # "idle"
                   => calls'[c] = calls[c] \o <<pc[c], CallRollback>>
          /\ pc[c] = "done"
             => (calls'[c] = calls[c] /\ response'[c] = response[c])]_vars

\* One creation of two items was accepted after one Commit; another stopped
\* at an unknown product without Commit.
C16_Witness ==
    \E c, d \in Creators :
        /\ Accepted(c) /\ Len(items[c]) = 2
        /\ calls[c] = WorkflowCalls(2) \o <<CallRollback>>
        /\ Failed(d) /\ response[d].status = StatusNotFound
        /\ calls[d] = <<CallBegin, CallInsertOrder, CallGetProduct, CallRollback>>

\* The order ids whose transaction has committed.
CommittedOrders == {OrderID(c) : c \in {d \in Creators : Called(d, CallCommit)}}

\* What a store with all-or-nothing transactions shows after the same calls:
\* the rows written by the transactions that have committed, and no others.
ReferenceOrders == [o \in CommittedOrders \cap DOMAIN orders |-> orders[o]]
ReferenceOrderItems ==
    [o \in CommittedOrders \cap DOMAIN orderItems |-> orderItems[o]]

\* C17: under every interleaving of creations and retrievals the in-memory
\* backend shows the orders and the order items that the store with
\* all-or-nothing transactions shows, and answers a retrieval as that store
\* does: 200 only for a committed order, with the content of its receipt.
C17_BackendEquivalence ==
    backend = "mock"
    => /\ orders = ReferenceOrders
       /\ orderItems = ReferenceOrderItems
       /\ \A r \in Readers :
             (pc[r] = "done" /\ response[r].status = StatusOK)
             => /\ readID[r] \in CommittedOrders
                /\ response[r] = [response[readID[r]] EXCEPT !.status = StatusOK]

\* C18: a header insert leaves every header already in the store as it was,
\* totals and creation time included, and returns an error when the order id
\* it carries is already in the store.
C18_DuplicateInsertRejected ==
    [][(calls'[StoreTx] = Append(calls[StoreTx], CallInsertOrder))
       => /\ \A o \in DOMAIN orders : orders'[o] = orders[o]
          /\ DOMAIN orders' = DOMAIN orders
             => lastErr'[StoreTx] # ErrNil]_vars

\* C19: on the in-memory store a totals update that returns an error names
\* an order id that has no header and leaves the store as it was, creating
\* no header; one that returns no error rewrites the two totals of one
\* existing header and leaves its id and creation time, every other header,
\* the item rows, the products and the next item id as they were.
C19_UpdateTotalsOnly ==
    [][(calls'[StoreTx] = Append(calls[StoreTx], CallUpdateTotals))
       => IF lastErr'[StoreTx] # ErrNil
          THEN /\ UNCHANGED <<products, orders, orderItems, nextItemID>>
               /\ \E d \in Creators :
                     /\ lastErr'[StoreTx] = ErrOrderNotFound(OrderID(d))
                     /\ OrderID(d) \notin DOMAIN orders
          ELSE /\ UNCHANGED <<products, orderItems, nextItemID>>
               /\ \E o \in DOMAIN orders :
                     orders' = [orders EXCEPT
                                  ![o].TotalPrice = TestTotalPrice,
                                  ![o].VATAmount = TestVATAmount]]_vars

\* An update on the empty store, which fails, then two header inserts and an
\* update that has rewritten the totals of the first header alone.
C19_Witness ==
    /\ calls[StoreTx] = <<CallUpdateTotals, CallInsertOrder, CallInsertOrder,
                          CallUpdateTotals>>
    /\ lastErr[StoreTx] = ErrNil
    /\ \E o1, o2 \in DOMAIN orders :
          /\ orders[o1].TotalPrice = TestTotalPrice
          /\ orders[o1].VATAmount = TestVATAmount
          /\ orders[o2].TotalPrice = 0 /\ orders[o2].VATAmount = 0
          /\ orders[o1].CreatedAt < orders[o2].CreatedAt

\* Sequence s is the beginning of sequence t.
IsPrefix(s, t) == Len(s) <= Len(t) /\ SubSeq(t, 1, Len(s)) = s

\* C20: in every step of every run, a request inserts its header at most
\* once and writes its totals at most once, each exactly once when it is
\* accepted; a header enters the in-memory store with totals 0/0; a header
\* in the store is not removed, and changes only at the one totals update of
\* its own request, from 0/0 and in the two totals alone; the item rows of
\* an order in the store stay as they are and in place, new rows being
\* appended after them.
C20_WriteOnceRows ==
    [][/\ \A c \in Creators :
             /\ Count(calls'[c], CallInsertOrder) <= 1
             /\ Count(calls'[c], CallUpdateTotals) <= 1
             /\ Accepted(c)'
                => /\ Count(calls'[c], CallInsertOrder) = 1
                   /\ Count(calls'[c], CallUpdateTotals) = 1
             /\ (OrderID(c) \in DOMAIN orders' \ DOMAIN orders
                 /\ backend = "mock")
                => /\ orders'[OrderID(c)].TotalPrice = 0
                   /\ orders'[OrderID(c)].VATAmount = 0
                   /\ calls'[c] = Append(calls[c], CallInsertOrder)
             /\ (OrderID(c) \in DOMAIN orders
                 /\ orders'[OrderID(c)] # orders[OrderID(c)])
                => /\ calls'[c] = Append(calls[c], CallUpdateTotals)
                   /\ orders[OrderID(c)].TotalPrice = 0
                   /\ orders[OrderID(c)].VATAmount = 0
                   /\ orders'[OrderID(c)].OrderID = orders[OrderID(c)].OrderID
                   /\ orders'[OrderID(c)].CreatedAt
                         = orders[OrderID(c)].CreatedAt
       /\ DOMAIN orders \subseteq DOMAIN orders'
       /\ DOMAIN orders' \subseteq {OrderID(c) : c \in Creators}
       /\ \A o \in DOMAIN orderItems :
             /\ o \in DOMAIN orderItems'
             /\ IsPrefix(orderItems[o], orderItems'[o])]_vars

\* An accepted order with its totals and its item row next to the header
\* and the item row that a failed creation left.
C20_Witness ==
    \E c, d \in Creators :
        /\ Accepted(c)
        /\ Len(ItemsOf(orderItems, OrderID(c))) = 1
        /\ orders[OrderID(c)].TotalPrice > 0
        /\ Failed(d)
        /\ OrderID(d) \in DOMAIN orders
        /\ orders[OrderID(d)].TotalPrice = 0
        /\ Len(ItemsOf(orderItems, OrderID(d))) = 1

\* C21.  The catalog is constant after the initial load: no store operation
\* (a product lookup inside a transaction, a product listing, a header
\* insert, an item insert, a totals update, Commit, Rollback, a retrieval)
\* adds, removes or changes a product, and so a product id resolves, by a
\* lookup and by a listing, to the price and the VAT rate it was loaded with.
C21_CatalogConstant ==
    [][/\ products' = products
       /\ products' = Populate
       /\ \A c \in Creators :
             /\ calls'[c] = Append(calls[c], CallGetProduct)
                => lastErr'[c] = IF product'[c] = NoProduct
                                 THEN ErrNoRows ELSE ErrNil
             /\ product'[c] # NoProduct
                => /\ product'[c].ID \in DOMAIN Populate
                   /\ product'[c] = Populate[product'[c].ID]
       /\ \A r \in Readers :
             (calls'[r] = <<CallQueryProducts>> /\ pc'[r] = "done")
             => \A i \in DOMAIN response'[r].Items :
                   /\ response'[r].Items[i].ID \in DOMAIN Populate
                   /\ response'[r].Items[i] = Populate[response'[r].Items[i].ID]]_vars

\* Product 1 was looked up before and after a header insert and an item
\* insert, with the same result, and the products were listed.
C21_Witness ==
    /\ calls[StoreTx] = <<CallGetProduct, CallInsertOrder, CallInsertItem,
                          CallGetProduct>>
    /\ product[StoreTx] = Populate[1]
    /\ \E r \in Readers :
          /\ calls[r] = <<CallQueryProducts>>
          /\ Len(response[r].Items) = Cardinality(DOMAIN Populate)

\* C22.  Every currency field of a creation response and of a retrieval
\* response (each item's price and vat, order_price, order_vat) is an
\* integer number of hundredths, for every catalog price and VAT rate.
C22_TwoDecimalPlaces ==
    \A w \in Creators \cup Readers :
        response[w].status \in {StatusOK, StatusCreated}
        => /\ response[w].TotalOrderPrice % Cent = 0
           /\ response[w].VATAmount % Cent = 0
           /\ \A i \in DOMAIN response[w].Items :
                 /\ response[w].Items[i].Price % Cent = 0
                 /\ response[w].Items[i].ItemVAT % Cent = 0

\* C23.  A product listing whose query returned its rows answers 200 with an
\* array, never null, holding each product of the catalog exactly once: the
\* empty array when the catalog is empty.  The in-memory query returns no
\* error, and an error of the query is the only way to an error response.
C23_ListingEachProductOnce ==
    \A r \in Readers :
        (pc[r] = "done" /\ calls[r] = <<CallQueryProducts>>)
        => /\ backend = "mock" => lastErr[r] = ErrNil
           /\ lastErr[r] # ErrNil
              => response[r].status = StatusInternalServerError
           /\ lastErr[r] = ErrNil
              => /\ response[r].status = StatusOK
                 /\ response[r].message # "null"
                 /\ Len(response[r].Items) = Cardinality(DOMAIN products)
                 /\ \A id \in DOMAIN products :
                       Cardinality({i \in DOMAIN response[r].Items :
                                       response[r].Items[i] = products[id]}) = 1
                 /\ products = EmptyMap => response[r].Items = <<>>

\* The products of an empty table were listed: 200 and an empty array.
C23_Witness ==
    /\ products = EmptyMap
    /\ \E r \in Readers :
          /\ pc[r] = "done"
          /\ calls[r] = <<CallQueryProducts>>
          /\ response[r] = OrderResponse(StatusOK, -1, 0, 0, <<>>)

\* The calls of a request before its deferred Rollback.
BeforeRollback(log) ==
    IF log # <<>> /\ LastCall(log) = CallRollback
    THEN SubSeq(log, 1, Len(log) - 1) ELSE log

\* The item rows a creation has written: pending in its transaction or in
\* the store under its order id.
WrittenItems(c) ==
    IF backend = "mock" THEN ItemsOf(orderItems, OrderID(c))
    ELSE IF txItems[c] # <<>> THEN txItems[c]
    ELSE ItemsOf(orderItems, OrderID(c))

\* C24.  Within one order creation the store operations occur in the order
\* Begin, one header insert with totals 0/0, then for each request item in
\* input order a product lookup followed by one item insert, then one totals
\* update, then Commit: the calls made so far are a prefix of that sequence;
\* the k-th lookup is for the k-th item, the k-th insert writes the row of
\* the k-th item after the rows of the items before it, and the totals
\* update comes when every item has been inserted.
C24_StoreOperationOrder ==
    [][\A c \in Creators :
          /\ IsPrefix(BeforeRollback(calls'[c]), WorkflowCalls(Len(items'[c])))
          /\ calls'[c] = Append(calls[c], CallInsertOrder)
             => LET header == IF backend = "mock" THEN orders'[OrderID(c)]
                              ELSE txOrder'[c]
                IN /\ header.OrderID = OrderID(c)
                   /\ header.TotalPrice = 0
                   /\ header.VATAmount = 0
                   /\ WrittenItems(c)' = <<>>
          /\ calls'[c] = Append(calls[c], CallGetProduct)
             => LET k == Count(calls'[c], CallGetProduct)
                IN /\ Count(calls'[c], CallInsertItem) = k - 1
                   /\ product'[c] = products[items[c][k].ProductID]
                   /\ orderItemRecord'[c].ProductID = items[c][k].ProductID
                   /\ orderItemRecord'[c].Quantity = items[c][k].Quantity
          /\ calls'[c] = Append(calls[c], CallInsertItem)
             => LET k == Count(calls'[c], CallInsertItem)
                    rows == WrittenItems(c)'
                IN /\ Count(calls'[c], CallInsertOrder) = 1
                   /\ Count(calls'[c], CallGetProduct) = k
                   /\ rows = Append(WrittenItems(c), rows[k])
                   /\ Len(rows) = k
                   /\ rows[k].OrderID = OrderID(c)
                   /\ rows[k].ProductID = items[c][k].ProductID
                   /\ rows[k].Quantity = items[c][k].Quantity
          /\ calls'[c] = Append(calls[c], CallUpdateTotals)
             => /\ LastCall(calls[c]) = CallInsertItem
                /\ Count(calls[c], CallInsertItem) = Len(items[c])
                /\ Len(WrittenItems(c)) = Len(items[c])]_vars

\* An accepted creation of product 2 and then product 1, its calls in the
\* order of the workflow and its two rows in the order of the request.
C24_Witness ==
    \E c \in Creators :
        /\ Accepted(c)
        /\ items[c] = <<Item(2, 2), Item(1, 1)>>
        /\ BeforeRollback(calls[c]) = WorkflowCalls(2)
        /\ Len(WrittenItems(c)) = 2
        /\ WrittenItems(c)[1].ProductID = 2
        /\ WrittenItems(c)[2].ProductID = 1

\* The first item of a request that fails validation, 0 when none does.
FirstFailing(its) ==
    LET bad == {k \in DOMAIN its : \/ its[k].ProductID \notin DOMAIN products
                                   \/ its[k].Quantity <= 0}
    IN IF bad = {} THEN 0 ELSE CHOOSE k \in bad : \A j \in bad : k <= j

\* C25.  Items are validated one at a time in input order and the first
\* failing item alone decides the outcome: no item after it is looked up and
\* neither it nor an item after it is inserted; a creation answered with 404
\* or 400 stopped at that item, with 404 naming its product when the product
\* is unknown, whatever its quantity, and with 400 when the product is known
\* and the quantity is not positive; and a creation that stopped at a lookup
\* without a store fault is answered so.
C25_FirstFailingItemDecides ==
    \A c \in Creators :
        LET k == FirstFailing(items[c])
            lookups == Count(calls[c], CallGetProduct)
        IN /\ k > 0
              => /\ lookups <= k
                 /\ Count(calls[c], CallInsertItem) <= k - 1
                 /\ Len(WrittenItems(c)) <= k - 1
                 /\ response[c].status # StatusCreated
           /\ (pc[c] = "done"
               /\ response[c].status \in {StatusNotFound, StatusBadRequest}
               /\ Called(c, CallBegin))
              => /\ k > 0 /\ lookups = k
                 /\ Count(calls[c], CallInsertItem) = k - 1
                 /\ response[c].id = items[c][k].ProductID
                 /\ response[c].status =
                       IF items[c][k].ProductID \notin DOMAIN products
                       THEN StatusNotFound ELSE StatusBadRequest
           /\ (pc[c] = "done" /\ FailedCall(c) = CallGetProduct
               /\ lastErr[c] # ErrStore)
              => response[c].status \in {StatusNotFound, StatusBadRequest}

\* A creation whose second item has an unknown product and the quantity 0
\* was answered 404 after two lookups and one insert; its third item was
\* never looked up.
C25_Witness ==
    \E c \in Creators :
        /\ pc[c] = "done"
        /\ items[c] = <<Item(1, 1), Item(UnknownProduct, 0), Item(2, 2)>>
        /\ response[c].status = StatusNotFound
        /\ response[c].id = UnknownProduct
        /\ Count(calls[c], CallGetProduct) = 2
        /\ Count(calls[c], CallInsertItem) = 1

\* C26.  Concurrent order creations do not interfere: in every reachable
\* state of two creations interleaved in any way, every item row stored
\* under an order id carries that order id and is the row of an item of
\* that order's own request, in the order of the request, at the catalog
\* price; the header of an accepted order has the totals computed from its
\* own items and as many rows as the request has items; and, when all the
\* creations were accepted, a retrieval begun afterwards that the store
\* answers returns each order as its own creation response gave it.
C26_CreationsDoNotInterfere ==
    /\ \A o \in DOMAIN orderItems :
          /\ o \in {OrderID(c) : c \in Creators}
          /\ \A i \in DOMAIN orderItems[o] : orderItems[o][i].OrderID = o
    /\ \A c \in Creators :
          /\ Len(WrittenItems(c)) <= Count(calls[c], CallInsertItem)
          /\ Len(WrittenItems(c)) <= Len(items[c])
          /\ \A i \in DOMAIN WrittenItems(c) :
                /\ WrittenItems(c)[i].OrderID = OrderID(c)
                /\ WrittenItems(c)[i].ProductID = items[c][i].ProductID
                /\ WrittenItems(c)[i].Quantity = items[c][i].Quantity
                /\ WrittenItems(c)[i].UnitPrice
                      = products[items[c][i].ProductID].Price
                /\ WrittenItems(c)[i].ItemVAT
                      = toFixed(ItemVAT(products[items[c][i].ProductID]))
          /\ Accepted(c)
             => /\ OrderID(c) \in DOMAIN orders
                /\ orders[OrderID(c)].OrderID = OrderID(c)
                /\ orders[OrderID(c)].TotalPrice = Round2(SumPrice(items[c]))
                /\ orders[OrderID(c)].VATAmount = Round2(SumVAT(items[c]))
                /\ Len(ItemsOf(orderItems, OrderID(c))) = Len(items[c])
    /\ \A r \in Readers :
          (/\ \A c \in Creators : Accepted(c)
           /\ doneAtStart[r] = Creators
           /\ pc[r] = "done" /\ calls[r][1] = CallQueryOrder
           /\ readID[r] # NonexistentOrder
           /\ lastErr[r] # ErrStore)
          => response[r] = [response[readID[r]] EXCEPT !.status = StatusOK]

\* Two creations were accepted, the item rows of one inserted before and
\* after the item row of the other, and one of the orders was retrieved
\* afterwards.
C26_Witness ==
    \E c, d \in Creators, r \in Readers :
        /\ Accepted(c) /\ Accepted(d) /\ c # d
        /\ Len(WrittenItems(c)) = 2 /\ Len(WrittenItems(d)) = 1
        /\ WrittenItems(c)[1].ItemID < WrittenItems(d)[1].ItemID
        /\ WrittenItems(d)[1].ItemID < WrittenItems(c)[2].ItemID
        /\ doneAtStart[r] = Creators
        /\ pc[r] = "done" /\ readID[r] = OrderID(c)
        /\ response[r].status = StatusOK
        /\ Len(response[r].Items) = 2

\* The store operation a request is at, by kind.
ReadOperations == {CallGetProduct, "idle", "GetOrderItemsByOrderID"}
WriteOperations == {CallInsertOrder, CallUpdateTotals, CallInsertItem}

\* C27.  Lock discipline of the in-memory backend: a request that has or
\* awaits the lock for a read operation (product lookup, product listing,
\* header fetch, items fetch) has the shared lock, and for a write operation
\* (header insert, totals update, item insert) the exclusive lock; every
\* store operation runs with the lock held; at most one request holds the
\* exclusive lock and then none holds the shared lock; and a request that
\* moves on to its next operation holds no lock.
C27_LockDiscipline ==
    [][/\ \A w \in Creators \cup Readers :
             /\ (mu'[w] # Unlocked /\ pc'[w] \in ReadOperations)
                => mu'[w] = RLocked
             /\ (mu'[w] # Unlocked /\ pc'[w] \in WriteOperations)
                => mu'[w] \in {Locked, LockPending}
             /\ mu'[w] # Unlocked
                => pc'[w] \in ReadOperations \cup WriteOperations
             /\ (calls'[w] # calls[w] /\ pc[w] \in ReadOperations
                 /\ calls'[w][Len(calls[w]) + 1] # CallBegin)
                => mu[w] = RLocked
             /\ (calls'[w] # calls[w] /\ pc[w] \in WriteOperations)
                => mu[w] = Locked
             /\ pc'[w] # pc[w] => mu'[w] = Unlocked
       /\ Cardinality(Holders({Locked})') <= 1
       /\ Holders({Locked})' # {} => Holders({RLocked})' = {}]_vars

\* A request has returned: a creation with 201 or an error response, a
\* retrieval or a listing with 200 or an error response, holding no lock.
Terminated(w) ==
    /\ pc[w] = "done"
    /\ mu[w] = Unlocked
    /\ response[w].status \in
          IF w \in Creators
          THEN {StatusCreated, StatusBadRequest, StatusNotFound,
                StatusInternalServerError}
          ELSE {StatusOK, StatusNotFound, StatusInternalServerError}

\* C28.  Under fair scheduling every order creation and every retrieval on
\* the in-memory backend, running concurrently, terminates: each request
\* reaches a terminal state, Succeeded or Failed with an error response, and
\* stays there; none is left blocked on the store lock.
C28_EveryRequestTerminates ==
    <>[](\A w \in Creators \cup Readers : Terminated(w))

\* Every request has returned: two creations were accepted, the item rows of
\* one written before and after the item row of the other, and the
\* retrieval found an order.
C28_Witness ==
    /\ \A w \in Creators \cup Readers : Terminated(w)
    /\ \E c, d \in Creators :
          /\ response[c].status = StatusCreated
          /\ response[d].status = StatusCreated
          /\ Len(ItemsOf(orderItems, OrderID(c))) = 2
          /\ Len(ItemsOf(orderItems, OrderID(d))) = 1
          /\ orderItems[OrderID(c)][1].ItemID < orderItems[OrderID(d)][1].ItemID
          /\ orderItems[OrderID(d)][1].ItemID < orderItems[OrderID(c)][2].ItemID
    /\ \E r \in Readers : response[r].status = StatusOK /\ readID[r] \in Creators

\* Every item row there is: in the store, or pending in a transaction.
AllItemRows ==
    UNION {{orderItems[o][i] : i \in DOMAIN orderItems[o]} : o \in DOMAIN orderItems}
    \cup UNION {{txItems[c][i] : i \in DOMAIN txItems[c]} : c \in Creators}

\* C29.  Snapshot invariant: in every reachable state every item row, stored
\* or pending, has a product id that is in the catalog, a quantity greater
\* than 0 and the unit price of that product in the catalog; the row a
\* handler is about to insert is such a row; and a request has as many rows
\* as it has valid items before its first item that is not, at most.
C29_ItemRowsAreSnapshots ==
    /\ \A row \in AllItemRows :
          /\ row.ProductID \in DOMAIN products
          /\ row.Quantity > 0
          /\ row.UnitPrice = products[row.ProductID].Price
    /\ \A c \in Creators :
          /\ pc[c] = CallInsertItem
             => /\ orderItemRecord[c].ProductID \in DOMAIN products
                /\ orderItemRecord[c].Quantity > 0
                /\ orderItemRecord[c].UnitPrice
                      = products[orderItemRecord[c].ProductID].Price
          /\ \A i \in DOMAIN WrittenItems(c) :
                /\ items[c][i].ProductID \in DOMAIN products
                /\ items[c][i].Quantity > 0

\* An accepted order of two units of product 2 has its row at the unit
\* price; a creation that failed on a zero quantity after a valid item left
\* the row of the valid item alone.
C29_Witness ==
    \E c, d \in Creators :
        /\ Accepted(c) /\ items[c] = <<Item(2, 2)>>
        /\ WrittenItems(c)[1].UnitPrice = products[2].Price
        /\ pc[d] = "done" /\ items[d] = <<Item(1, 1), Item(1, 0)>>
        /\ response[d].status = StatusBadRequest
        /\ Len(WrittenItems(d)) = 1

\* The last call was a Scan.
Scanned == returned \notin {NotCalled, "true", "false"}

\* The row set is before its first row or past its last one.
OutOfBounds ==
    /\ inMemoryRows # NoRows
    /\ inMemoryRows.currentIndex \notin 1..Len(inMemoryRows.data)

\* The data Scan was called on.
ScannedData ==
    IF inMemoryRow # NoRow THEN inMemoryRow.data
    ELSE IF OutOfBounds THEN <<>>
    ELSE inMemoryRows.data[inMemoryRows.currentIndex]

\* The destinations differ from the data in number or in a type.
Mismatch ==
    \/ Len(dest) # Len(ScannedData)
    \/ \E i \in DOMAIN dest : dest[i].type # ScannedData[i].type

\* C30.  Scanning an in-memory row into destinations of the wrong number or
\* of a wrong type returns an error, and no Scan stores a value of another
\* type than its destination's or ends in a panic; a row carrying an error
\* returns that error from Scan; a Scan of a row set before the first Next
\* or after Next returned false returns an error.
C30_ScanMismatchIsAnError ==
    /\ returned # Panic
    /\ \A i \in DOMAIN dest : dest[i].val.type = dest[i].type
    /\ (Scanned /\ inMemoryRow # NoRow /\ inMemoryRow.err # ErrNil)
       => returned = inMemoryRow.err
    /\ (Scanned /\ OutOfBounds) => returned = ErrOutOfBounds
    /\ (Scanned /\ ~OutOfBounds /\ Mismatch
        /\ (inMemoryRow = NoRow \/ inMemoryRow.err = ErrNil))
       => returned \in {ErrScanArity, ErrUnsupported}

====
